---- MODULE Spec2Model ----
(***************************************************************************)
(* Model of the chat tool-calling core of the reel maker:                  *)
(*   - sendAssistantMessage (services/apiService part of gemini.js): the    *)
(*     dispatch loop over the function calls of one model response;         *)
(*   - the host callbacks App binds to it (handleAssistantScript,           *)
(*     handleChatTranslateNarrations, setYoutubeTitle, ...);                *)
(*   - the host's Translate-all action and translateNarrationsBatch;        *)
(*   - buildScriptContext and the text payload of a turn, the fallback      *)
(*     extractor tryParseScriptFromText and the plain-text reply;           *)
(*   - handleChatSend of App: chat entries, chatLoading, the chat handle.   *)
(*                                                                          *)
(* JavaScript values are modelled as follows.  Text is a TLA+ string;       *)
(* UNDEF stands for undefined/null text, NoBlob for a null blob, NoNumber   *)
(* for an undefined number.  An array argument that may be absent or of     *)
(* another type carries a kind field next to its elements.  Multi-line      *)
(* text is a sequence of lines.                                             *)
(***************************************************************************)
EXTENDS Integers, Sequences, FiniteSets, TLC

\* ------------------------------------------------------------------ bounds
\* Longest batch of function calls in one response (Spec).
MaxBatch == 3
\* Longest scene list of the host (SpecTr, SpecTNB).
MaxScenes == 2
\* Longest sparse {sceneNumber, narration} list of a translateNarrations call.
MaxSparse == 2
\* Number of handleChatSend invocations in one behaviour (SpecChat).
MaxSends == 3

\* ------------------------------------------------------------- JS values
UNDEF == "<undefined>"
NoBlob == "<null>"
NoNumber == 0 - 1

\* x ?? d on text
Nullish(x, d) == IF x = UNDEF THEN d ELSE x
\* truthiness of a text value: undefined and '' are falsy
Truthy(x) == x # UNDEF /\ x # ""
\* a || b on text
OrText(a, b) == IF Truthy(a) THEN a ELSE b
\* n || 0 and n ?? 0 on a number that may be undefined
NumOrZero(n) == IF n = NoNumber THEN 0 ELSE n

SeqsUpTo(S, n) == UNION {[1..k -> S] : k \in 0..n}

\* ------------------------------------------------------- canned sentences
ScriptSentence == "I've added the script to your scene editor. You can review and edit it there, then generate images and audio for each scene."
TranslateSentence(lang) == IF lang = "French" THEN "I've translated the narrations to French. The narration boxes are updated." ELSE "I've translated the narrations to Spanish. The narration boxes are updated."
TitleSentence == "I've generated a YouTube title. Check the YouTube metadata section."
DescriptionSentence == "I've generated a YouTube description. Check the YouTube metadata section."
ThumbnailSentence == "Thumbnail generated and displayed in the YouTube metadata section."
ThumbnailFailedSentence == "Thumbnail generation failed: No image in response."

VARIABLES
    scenes,                \* App state: the scene list
    projectName,           \* App state
    showTranslated,        \* App state
    youtubeTitle,          \* App state
    youtubeDescription,    \* App state
    youtubeThumbnailBlob,  \* App state
    translating,           \* App state: Translate-all in flight
    error,                 \* App state: setError
    taNarrations,          \* Translate-all: the narrations sent to translateNarrationsBatch
    ai,                    \* module state of gemini.js: TRUE when an API key is configured
    tnb,                   \* the last direct translateNarrationsBatch call: input, response, outcome
    pc,                    \* position of the sendAssistantMessage invocation
    functionCalls,         \* the batch of the response
    fcIdx,                 \* the call the for-of loop is at (1-based)
    confirmText,           \* local confirmText
    ret,                   \* how sendAssistantMessage ended
    chunks,                \* texts delivered through onChunk
    log,                   \* handler events of the turn: <<call index, event>>
    text,                  \* the free text of the response (local text)
    parsed,                \* what tryParseScriptFromText(text) returned, once called
    thumbRequest,          \* the arguments of the last genThumbnail call
    message,               \* argument message
    anchorImages,          \* argument anchorImages
    scenesArg,             \* argument scenes: the scene list the caller passed
    scriptContext,         \* local scriptContext, as lines
    textPayload,           \* local textPayload before the anchor images are looked at, as lines
    messageContent,        \* what chat.sendMessage is given
    sends,                 \* the handleChatSend invocations and where each one stands
    assistantChatRef,      \* assistantChatRef.current
    chatLoading,           \* App state
    chatMessages           \* App state

hostVars == <<scenes, projectName, showTranslated, youtubeTitle, youtubeDescription, youtubeThumbnailBlob>>
taVars == <<translating, error, taNarrations, ai>>
turnVars == <<pc, functionCalls, fcIdx, confirmText, ret, chunks, log>>
respVars == <<text, parsed, thumbRequest>>
payloadVars == <<message, anchorImages, scenesArg, scriptContext, textPayload, messageContent>>
chatVars == <<sends, assistantChatRef, chatLoading, chatMessages>>
vars == <<scenes, projectName, showTranslated, youtubeTitle, youtubeDescription, youtubeThumbnailBlob, translating, error, taNarrations, ai, tnb, pc, functionCalls, fcIdx, confirmText, ret, chunks, log, text, parsed, thumbRequest, message, anchorImages, scenesArg, scriptContext, textPayload, messageContent, sends, assistantChatRef, chatLoading, chatMessages>>

\* ------------------------------------------------------------ tool calls
\* One element of an args.scenes array: null, or an object whose keys may be missing.
Item(n, d, nar) == [isNull |-> FALSE, sceneNumber |-> n, description |-> d, narration |-> nar, narrationTranslated |-> UNDEF]
NullItem == [isNull |-> TRUE, sceneNumber |-> NoNumber, description |-> UNDEF, narration |-> UNDEF, narrationTranslated |-> UNDEF]

\* A function call {name, args}.  scenesKind / tnKind: "absent", "nonArray" (a truthy
\* value that is no array) or "array".
Call(name) == [name |-> name, scenesKind |-> "absent", scenes |-> <<>>, targetLanguage |-> UNDEF, tnKind |-> "absent", translatedNarrations |-> <<>>, title |-> UNDEF, description |-> UNDEF, prompt |-> UNDEF, modelTier |-> UNDEF, imageModel |-> UNDEF]
ScriptCall(kind, items) == [Call("generateMovieScript") EXCEPT !.scenesKind = kind, !.scenes = items]
FlatTranslateCall(lang, tn) == [Call("translateNarrations") EXCEPT !.targetLanguage = lang, !.tnKind = "array", !.translatedNarrations = tn]
SparseTranslateCall(lang, items) == [Call("translateNarrations") EXCEPT !.targetLanguage = lang, !.scenesKind = "array", !.scenes = items]
BareTranslateCall(lang) == [Call("translateNarrations") EXCEPT !.targetLanguage = lang]
TitleCall(t) == [Call("generateYouTubeTitle") EXCEPT !.title = t]
DescriptionCall(d) == [Call("generateYouTubeDescription") EXCEPT !.description = d]
ThumbnailCall == Call("generateYouTubeThumbnail")
ThumbnailCallWith(prompt, modelTier, imageModel) == [Call("generateYouTubeThumbnail") EXCEPT !.prompt = prompt, !.modelTier = modelTier, !.imageModel = imageModel]
UnknownCall == Call("deleteAllScenes")

\* ---------------------------------------------------------- host callbacks
initialScene(item) == [sceneNumber |-> NumOrZero(item.sceneNumber), description |-> Nullish(item.description, ""), narration |-> Nullish(item.narration, ""), narrationTranslated |-> Nullish(item.narrationTranslated, ""), imageBlob |-> NoBlob, audioBlob |-> NoBlob]

getProjectName == "video_20261104_000000"

\* handleAssistantScript(args) throws: initialScene reads item.sceneNumber of a null element.
AssistantScriptThrows(args) == args.scenesKind = "array" /\ \E i \in 1..Len(args.scenes) : args.scenes[i].isNull

\* mutant: the new scenes are appended to the list
handleAssistantScript_Append(args) ==
    IF args.scenesKind # "array"
    THEN UNCHANGED <<scenes, projectName>>
    ELSE /\ scenes' = scenes \o [i \in 1..Len(args.scenes) |-> initialScene(args.scenes[i])]
         /\ projectName' = getProjectName
\* handleAssistantScript(args), for arguments it does not throw on.
handleAssistantScript(args) ==
    IF args.scenesKind # "array"
    THEN UNCHANGED <<scenes, projectName>>
    ELSE /\ scenes' = [i \in 1..Len(args.scenes) |-> initialScene(args.scenes[i])]
         /\ projectName' = getProjectName

\* mutant: a translation is written only where none is present yet
OverlayFlat_KeepExisting(prev, translated) == [i \in 1..Len(prev) |-> IF prev[i].narrationTranslated # "" THEN prev[i] ELSE [prev[i] EXCEPT !.narrationTranslated = IF i <= Len(translated) THEN Nullish(translated[i], "") ELSE ""]]
\* mutant: the scenes are zipped with the translations, the shorter list deciding the length
OverlayFlat_Zip(prev, translated) == [i \in 1..(IF Len(translated) < Len(prev) THEN Len(translated) ELSE Len(prev)) |-> [prev[i] EXCEPT !.narrationTranslated = Nullish(translated[i], "")]]
\* prev.map((s, i) => ({ ...s, narrationTranslated: translated[i] ?? '' }))
OverlayFlat(prev, translated) == [i \in 1..Len(prev) |-> [prev[i] EXCEPT !.narrationTranslated = IF i <= Len(translated) THEN Nullish(translated[i], "") ELSE ""]]

\* the for-of loop of the sparse form, from entry k on
RECURSIVE OverlaySparseFrom(_, _, _)
OverlaySparseFrom(next, entries, k) ==
    IF k > Len(entries) THEN next
    ELSE LET s == entries[k]
             pos == NumOrZero(s.sceneNumber)
         IN  OverlaySparseFrom(IF pos >= 1 /\ pos <= Len(next) THEN [next EXCEPT ![pos].narrationTranslated = Nullish(s.narration, "")] ELSE next, entries, k + 1)

\* mutant: the scenes the entries do not reach keep their translation
OverlaySparse_KeepOthers(prev, entries) == OverlaySparseFrom(prev, entries, 1)
\* const next = prev.map((s) => ({ ...s, narrationTranslated: '' })), then the loop
OverlaySparse(prev, entries) == OverlaySparseFrom([i \in 1..Len(prev) |-> [prev[i] EXCEPT !.narrationTranslated = ""]], entries, 1)

\* handleChatTranslateNarrations(args)
handleChatTranslateNarrations(args) ==
    IF args.tnKind = "array" /\ Len(args.translatedNarrations) > 0
    THEN /\ scenes' = OverlayFlat(scenes, args.translatedNarrations)
         /\ showTranslated' = TRUE
    ELSE IF args.scenesKind = "array" /\ Len(args.scenes) > 0
    THEN /\ scenes' = OverlaySparse(scenes, args.scenes)
         /\ showTranslated' = TRUE
    ELSE UNCHANGED <<scenes, showTranslated>>

\* ------------------------------------------------- sendAssistantMessage
\* The branch of the if / else-if chain a call takes.
Branch(fc) ==
    IF fc.name = "generateMovieScript" /\ fc.scenesKind # "absent" THEN "script"
    ELSE IF fc.name = "translateNarrations" /\ Truthy(fc.targetLanguage) THEN "translate"
    ELSE IF fc.name = "generateYouTubeTitle" /\ Truthy(fc.title) THEN "title"
    ELSE IF fc.name = "generateYouTubeDescription" /\ Truthy(fc.description) THEN "description"
    ELSE IF fc.name = "generateYouTubeThumbnail" THEN "thumbnail"
    ELSE "skip"

\* What sendAssistantMessage hands to onTranslateNarrations, if it calls it at all.
TranslateArgs(fc) == IF fc.tnKind = "array" THEN [fc EXCEPT !.scenesKind = "absent", !.scenes = <<>>] ELSE fc
CallsOnTranslate(fc) == fc.tnKind = "array" \/ fc.scenesKind = "array"

\* confirmText = confirmText || sentence
KeepFirst(current, sentence) == OrText(current, sentence)

\* mutant: the loop goes on while the thumbnail generator is still awaited
AtCall_DuringAwait == pc \in {"dispatch", "awaitThumb"} /\ fcIdx <= Len(functionCalls)
\* the for-of loop is at a call, and not suspended
AtCall == pc = "dispatch" /\ fcIdx <= Len(functionCalls)
cur == functionCalls[fcIdx]
Logged(ev) == log' = Append(log, <<fcIdx, ev>>)
Thrown == [status |-> "threw", text |-> "", functionCalled |-> FALSE]
NoReturn == [status |-> "none", text |-> "", functionCalled |-> FALSE]
\* throw new Error('API key not configured')
ConfigurationError == [status |-> "threw", text |-> "API key not configured", functionCalled |-> FALSE]

\* Multi-line text is a sequence of lines (joined by '\n'); the empty string has no line.
\* mutant: the translated line is written for every scene
SceneBlock_AlwaysTranslated(s) == <<"Scene " \o ToString(s.sceneNumber) \o ":", "  Description: " \o OrText(s.description, "(none)"), "  Narration (original): " \o OrText(s.narration, "(none)"), "  Narration (translated): " \o s.narrationTranslated>>
\* the block of one scene
SceneBlock(s) ==
    <<"Scene " \o ToString(s.sceneNumber) \o ":", "  Description: " \o OrText(s.description, "(none)"), "  Narration (original): " \o OrText(s.narration, "(none)")>>
    \o (IF Truthy(s.narrationTranslated) THEN <<"  Narration (translated): " \o s.narrationTranslated>> ELSE <<>>)

\* lines.join('\n\n'), from block i on
RECURSIVE JoinBlocks(_, _)
JoinBlocks(list, i) ==
    IF i > Len(list) THEN <<>>
    ELSE IF i = Len(list) THEN SceneBlock(list[i])
    ELSE SceneBlock(list[i]) \o <<"">> \o JoinBlocks(list, i + 1)

buildScriptContext(list) == IF Len(list) = 0 THEN <<>> ELSE <<"CURRENT SCRIPT:", "">> \o JoinBlocks(list, 1)

\* mutant: the label and the delimiter are written for an empty context too
TextPayload_AlwaysLabelled(context, msg) == (IF Len(context) > 0 THEN context ELSE <<"CURRENT SCRIPT:">>) \o <<"", "USER MESSAGE:", msg>>
\* scriptContext ? `${scriptContext}\n\nUSER MESSAGE:\n${message}` : message
TextPayload(context, msg) == IF Len(context) > 0 THEN context \o <<"", "USER MESSAGE:", msg>> ELSE <<msg>>

\* the anchor images wrap the text in a preface and are attached as inline data
MessageContent(payload, images) ==
    IF \E i \in 1..Len(images) : images[i] # NoBlob
    THEN [text |-> <<"Here are my anchor images (image 1, 2, 3) for style reference:", "">> \o payload, inlineData |-> SelectSeq(images, LAMBDA img : img # NoBlob)]
    ELSE [text |-> payload, inlineData |-> <<>>]

NoImages == <<NoBlob, NoBlob, NoBlob>>
NoContent == [text |-> <<>>, inlineData |-> <<>>]

\* sendAssistantMessage(chat, msg, ..., images, ..., scenes, ...) up to
\* await chat.sendMessage(...); the caller passes its current scene list
SendMessage(msg, images) ==
    /\ pc = "idle"
    /\ message' = msg
    /\ anchorImages' = images
    /\ scenesArg' = scenes
    /\ scriptContext' = buildScriptContext(scenes)
    /\ textPayload' = TextPayload(buildScriptContext(scenes), msg)
    /\ messageContent' = MessageContent(TextPayload(buildScriptContext(scenes), msg), images)
    /\ pc' = "awaitModel"
    /\ UNCHANGED <<hostVars, taVars, tnb, functionCalls, fcIdx, confirmText, ret, chunks, log, respVars, chatVars>>

\* sendAssistantMessage(null, msg, ...): if (!chat) throw, the first statement
SendMessageNoChat(msg) ==
    /\ pc = "idle"
    /\ assistantChatRef = 0
    /\ ret' = ConfigurationError
    /\ pc' = "done"
    /\ UNCHANGED <<hostVars, taVars, tnb, functionCalls, fcIdx, confirmText, chunks, log, respVars, payloadVars, chatVars>>

\* a turn with a fixed message and no anchor image
SendAssistantMessage == SendMessage("Make it shorter", NoImages)

\* The free text of a response: raw is the string (<fence> standing for the three
\* backticks of a fence marker), tokens its pieces in order.  A piece is prose without
\* brackets, a bracketed tag such as [whispering], a fence marker, or the text of a JSON
\* array with its elements.
Prose == [k |-> "prose", items |-> <<>>]
Tag == [k |-> "tag", items |-> <<>>]
Fence == [k |-> "fence", items |-> <<>>]
ArrayText(items) == [k |-> "array", items |-> items]
NoText == [raw |-> "", tokens |-> <<>>]

\* mutant: every element that is not null counts
Meaningful_NonNull(s) == ~s.isNull
\* s && (s.description || s.narration)
Meaningful(s) == ~s.isNull /\ (Truthy(s.description) \/ Truthy(s.narration))

NullParse == [attempted |-> TRUE, isNull |-> TRUE, scenes |-> <<>>]
NotParsed == [attempted |-> FALSE, isNull |-> TRUE, scenes |-> <<>>]

\* tryParseScriptFromText(text).  cleaned.match(/\[[\s\S]*\]/) is greedy: the match runs
\* from the first '[' to the last ']' of the cleaned text, and JSON.parse accepts it only
\* when that span is the text of one array.  Every failure ends in null.
tryParseScriptFromText(t) ==
    IF t.raw = "" THEN NullParse
    ELSE LET cleaned == SelectSeq(t.tokens, LAMBDA tok : tok.k # "fence")
             bracketed == {i \in 1..Len(cleaned) : cleaned[i].k \in {"tag", "array"}}
         IN  IF bracketed = {} THEN NullParse
             ELSE LET first == CHOOSE i \in bracketed : \A j \in bracketed : i <= j
                      last == CHOOSE i \in bracketed : \A j \in bracketed : j <= i
                  IN  IF first # last \/ cleaned[first].k # "array" THEN NullParse
                      ELSE LET kept == SelectSeq(cleaned[first].items, Meaningful)
                           IN  IF Len(kept) = 0 THEN NullParse
                               ELSE [attempted |-> TRUE, isNull |-> FALSE, scenes |-> kept]

\* mutant: the fallback is skipped only when some call of the batch takes a branch
HasFunctionCalls_SomeHandled(calls) == \E i \in 1..Len(calls) : Branch(calls[i]) # "skip"
\* functionCalls && functionCalls.length > 0
HasFunctionCalls(calls) == Len(calls) > 0

\* the response arrives carrying the calls and the free text t
ModelRespondsText(calls, t) ==
    /\ pc = "awaitModel"
    /\ functionCalls' = calls
    /\ text' = t
    /\ fcIdx' = 1
    /\ confirmText' = ""
    /\ pc' = IF HasFunctionCalls(calls) THEN "dispatch" ELSE "fallback"
    /\ UNCHANGED <<hostVars, taVars, tnb, ret, chunks, log, parsed, thumbRequest, payloadVars, chatVars>>

\* the response arrives carrying the batch calls and no free text
ModelResponds(calls) == Len(calls) > 0 /\ ModelRespondsText(calls, NoText)

\* mutant: the plain reply is reported as a function call
PlainReply_Called(raw) == [status |-> "returned", text |-> raw, functionCalled |-> TRUE]
\* return { text, functionCalled: false }
PlainReply(raw) == [status |-> "returned", text |-> raw, functionCalled |-> FALSE]

\* no function call: tryParseScriptFromText(text), then onScript(parsed) and the canned
\* reply, or onChunk(text) and the text itself
Fallback ==
    /\ pc = "fallback"
    /\ parsed' = tryParseScriptFromText(text)
    /\ IF ~tryParseScriptFromText(text).isNull
       THEN /\ log' = Append(log, <<0, "onScript">>)
            /\ handleAssistantScript(ScriptCall("array", tryParseScriptFromText(text).scenes))
            /\ chunks' = Append(chunks, ScriptSentence)
            /\ ret' = [status |-> "returned", text |-> "I've added the script to your scene editor.", functionCalled |-> TRUE]
       ELSE /\ chunks' = Append(chunks, text.raw)
            /\ ret' = PlainReply(text.raw)
            /\ UNCHANGED <<scenes, projectName, log>>
    /\ pc' = "done"
    /\ UNCHANGED <<showTranslated, youtubeTitle, youtubeDescription, youtubeThumbnailBlob, taVars, tnb, functionCalls, fcIdx, confirmText, text, thumbRequest, payloadVars, chatVars>>

DispatchScript ==
    /\ AtCall
    /\ Branch(cur) = "script"
    /\ Logged("onScript")
    /\ IF AssistantScriptThrows(cur)
       THEN /\ pc' = "done"
            /\ ret' = Thrown
            /\ UNCHANGED <<scenes, projectName, fcIdx, confirmText>>
       ELSE /\ handleAssistantScript(cur)
            /\ confirmText' = KeepFirst(confirmText, ScriptSentence)
            /\ fcIdx' = fcIdx + 1
            /\ UNCHANGED <<pc, ret>>
    /\ UNCHANGED <<showTranslated, youtubeTitle, youtubeDescription, youtubeThumbnailBlob, taVars, tnb, functionCalls, chunks>>
    /\ UNCHANGED <<respVars, payloadVars, chatVars>>

DispatchTranslate ==
    /\ AtCall
    /\ Branch(cur) = "translate"
    /\ IF CallsOnTranslate(cur)
       THEN /\ Logged("onTranslateNarrations")
            /\ handleChatTranslateNarrations(TranslateArgs(cur))
       ELSE UNCHANGED <<log, scenes, showTranslated>>
    /\ confirmText' = KeepFirst(confirmText, TranslateSentence(cur.targetLanguage))
    /\ fcIdx' = fcIdx + 1
    /\ UNCHANGED <<projectName, youtubeTitle, youtubeDescription, youtubeThumbnailBlob, taVars, tnb, pc, functionCalls, ret, chunks>>
    /\ UNCHANGED <<respVars, payloadVars, chatVars>>

DispatchTitle ==
    /\ AtCall
    /\ Branch(cur) = "title"
    /\ Logged("onYouTubeTitle")
    /\ youtubeTitle' = cur.title
    /\ confirmText' = KeepFirst(confirmText, TitleSentence)
    /\ fcIdx' = fcIdx + 1
    /\ UNCHANGED <<scenes, projectName, showTranslated, youtubeDescription, youtubeThumbnailBlob, taVars, tnb, pc, functionCalls, ret, chunks>>
    /\ UNCHANGED <<respVars, payloadVars, chatVars>>

DispatchDescription ==
    /\ AtCall
    /\ Branch(cur) = "description"
    /\ Logged("onYouTubeDescription")
    /\ youtubeDescription' = cur.description
    /\ confirmText' = KeepFirst(confirmText, DescriptionSentence)
    /\ fcIdx' = fcIdx + 1
    /\ UNCHANGED <<scenes, projectName, showTranslated, youtubeTitle, youtubeThumbnailBlob, taVars, tnb, pc, functionCalls, ret, chunks>>
    /\ UNCHANGED <<respVars, payloadVars, chatVars>>

\* s.trim() on the prompts of the model
Trim(s) == IF s = "   " THEN "" ELSE IF s = " A hero at dawn " THEN "A hero at dawn" ELSE s
\* mutant: only modelTier is read
ThumbnailModelId_TierOnly(fc) == IF fc.modelTier = "expensive" THEN "gemini-3-pro-image-preview" ELSE "gemini-2.5-flash-image"
\* args.modelTier || args.imageModel || 'cheap', and the model it selects
ThumbnailModelId(fc) == IF OrText(fc.modelTier, OrText(fc.imageModel, "cheap")) = "expensive" THEN "gemini-3-pro-image-preview" ELSE "gemini-2.5-flash-image"
\* the prompt: args.prompt trimmed when that is not blank, else the context rendered
\* from the scene list the caller passed, else 'Short video reel.'
ThumbnailPrompt(fc, list) ==
    IF Truthy(fc.prompt) /\ Trim(fc.prompt) # "" THEN <<Trim(fc.prompt)>>
    ELSE IF Len(buildScriptContext(list)) > 0 THEN buildScriptContext(list)
    ELSE <<"Short video reel.">>
\* (scenes || []).map((s) => s.imageBlob).filter(Boolean)
SceneBlobs(list) == SelectSeq([i \in 1..Len(list) |-> list[i].imageBlob], LAMBDA b : b # NoBlob)
NoRequest == [prompt |-> <<>>, sceneBlobs |-> <<>>, modelId |-> ""]

\* await genThumbnail(prompt, sceneBlobs, modelId)
ThumbnailStart ==
    /\ AtCall
    /\ Branch(cur) = "thumbnail"
    /\ Logged("genThumbnail")
    /\ thumbRequest' = [prompt |-> ThumbnailPrompt(cur, scenesArg), sceneBlobs |-> SceneBlobs(scenesArg), modelId |-> ThumbnailModelId(cur)]
    /\ pc' = "awaitThumb"
    /\ UNCHANGED <<hostVars, taVars, tnb, functionCalls, fcIdx, confirmText, ret, chunks>>
    /\ UNCHANGED <<text, parsed, payloadVars, chatVars>>

\* genThumbnail resolved with a blob
ThumbnailResolve ==
    /\ pc = "awaitThumb"
    /\ Logged("onYouTubeThumbnail")
    /\ youtubeThumbnailBlob' = "thumbnail.png"
    /\ confirmText' = KeepFirst(confirmText, ThumbnailSentence)
    /\ fcIdx' = fcIdx + 1
    /\ pc' = "dispatch"
    /\ UNCHANGED <<scenes, projectName, showTranslated, youtubeTitle, youtubeDescription, taVars, tnb, functionCalls, ret, chunks>>
    /\ UNCHANGED <<respVars, payloadVars, chatVars>>

\* genThumbnail rejected: the catch block
ThumbnailReject ==
    /\ pc = "awaitThumb"
    /\ Logged("thumbnailFailed")
    /\ confirmText' = KeepFirst(confirmText, ThumbnailFailedSentence)
    /\ fcIdx' = fcIdx + 1
    /\ pc' = "dispatch"
    /\ UNCHANGED <<hostVars, taVars, tnb, functionCalls, ret, chunks>>
    /\ UNCHANGED <<respVars, payloadVars, chatVars>>

\* no branch of the chain matches: nothing is done for this call
SkipCall ==
    /\ AtCall
    /\ Branch(cur) = "skip"
    /\ fcIdx' = fcIdx + 1
    /\ UNCHANGED <<hostVars, taVars, tnb, pc, functionCalls, confirmText, ret, chunks, log>>
    /\ UNCHANGED <<respVars, payloadVars, chatVars>>

\* onChunk?.(confirmText); return { text: confirmText, functionCalled: true }
ReturnConfirmation ==
    /\ pc = "dispatch"
    /\ fcIdx > Len(functionCalls)
    /\ chunks' = Append(chunks, confirmText)
    /\ ret' = [status |-> "returned", text |-> confirmText, functionCalled |-> TRUE]
    /\ pc' = "done"
    /\ UNCHANGED <<hostVars, taVars, tnb, functionCalls, fcIdx, confirmText, log>>
    /\ UNCHANGED <<respVars, payloadVars, chatVars>>

Dispatch ==
    \/ DispatchScript
    \/ DispatchTranslate
    \/ DispatchTitle
    \/ DispatchDescription
    \/ ThumbnailStart
    \/ ThumbnailResolve
    \/ ThumbnailReject
    \/ SkipCall
    \/ ReturnConfirmation

\* ------------------------------------------- translateNarrationsBatch
\* The text of the remote response: missing (no candidate text, or blank), text that
\* JSON.parse rejects, or JSON text; fenced when wrapped in ```json ... ```.  A JSON
\* value is an array (isArray) of elements or one element alone; an element is a
\* string, null, a number (s its decimal text) or an object.
Str(s) == [t |-> "string", s |-> s]
JsonNull == [t |-> "null", s |-> ""]
JsonNumber == [t |-> "number", s |-> "7"]
JsonObject == [t |-> "object", s |-> ""]
NoResponse == [kind |-> "missing", fenced |-> FALSE, isArray |-> FALSE, items |-> <<>>]
InvalidJson == [kind |-> "invalid", fenced |-> FALSE, isArray |-> FALSE, items |-> <<>>]
JsonArray(items, fenced) == [kind |-> "json", fenced |-> fenced, isArray |-> TRUE, items |-> items]
JsonScalar(e, fenced) == [kind |-> "json", fenced |-> fenced, isArray |-> FALSE, items |-> <<e>>]

\* s.replace(/```json\n?|\n?```/g, '') on the strings of the model; <fence> stands for
\* the three backticks of a fence marker
RemoveFenceMarkers(s) == IF s = "[whispering] Dites <fence>bonjour<fence>" THEN "[whispering] Dites bonjour" ELSE s
\* text.replace(/```json\n?|\n?```/g, '').trim(): the replace is global, so it removes
\* the markers that wrap the text and those inside its string elements alike
StripFences(body) == [body EXCEPT !.fenced = FALSE, !.items = [i \in 1..Len(body.items) |-> IF body.items[i].t = "string" THEN Str(RemoveFenceMarkers(body.items[i].s)) ELSE body.items[i]]]
\* JSON.parse accepts the text
JsonParses(body) == body.kind = "json" /\ ~body.fenced
\* String(s ?? '') for a non-string element, s itself for a string
JsString(e) == IF e.t = "string" THEN e.s ELSE IF e.t = "null" THEN "" ELSE IF e.t = "number" THEN e.s ELSE "[object Object]"

Failed(msg) == [outcome |-> "error", message |-> msg, result |-> <<>>]
Returned(list) == [outcome |-> "ok", message |-> "", result |-> list]

\* mutant: the length of the response is not checked
LengthMatches_Unchecked(arr, narrations) == TRUE
\* the length check of translateNarrationsBatch
LengthMatches(arr, narrations) == Len(arr) = Len(narrations)

\* mutant: no early return for an empty input
EmptyInput_Never(narrations) == FALSE
\* !narrations?.length
EmptyInput(narrations) == Len(narrations) = 0

\* ai.models.generateContent is reached: a key is configured and the input is not empty
CallsRemote(key, narrations) == key /\ ~EmptyInput(narrations)

translateNarrationsBatch(key, narrations, response) ==
    IF ~key THEN Failed("API key not configured")
    ELSE IF EmptyInput(narrations) THEN Returned(<<>>)
    ELSE IF response.kind = "missing" THEN Failed("No translation response")
    ELSE IF ~JsonParses(StripFences(response)) THEN Failed("Translation did not return valid JSON array")
    ELSE LET arr == StripFences(response).items
         IN  IF ~LengthMatches(arr, narrations) THEN Failed("Translation returned a different number of items")
             ELSE Returned([i \in 1..Len(arr) |-> JsString(arr[i])])

NoCall == [called |-> FALSE, narrations |-> <<>>, response |-> NoResponse, remote |-> FALSE, outcome |-> "none", message |-> "", result |-> <<>>]

\* a direct call of translateNarrationsBatch, settled by the remote response
TranslateNarrationsBatchCall(narrations, response) ==
    /\ ~tnb.called
    /\ LET r == translateNarrationsBatch(ai, narrations, response)
       IN  tnb' = [called |-> TRUE, narrations |-> narrations, response |-> response, remote |-> CallsRemote(ai, narrations), outcome |-> r.outcome, message |-> r.message, result |-> r.result]
    /\ UNCHANGED <<hostVars, taVars, turnVars>>
    /\ UNCHANGED <<respVars, payloadVars, chatVars>>

\* ---------------------------------------- handleTranslateAllNarrations
\* scenes.map((s) => s.narration || '')
NarrationsOf(list) == [i \in 1..Len(list) |-> OrText(list[i].narration, "")]

\* up to the await: the guard, setTranslating(true), setError(null), and the call,
\* which throws at once when no key is configured
TranslateAllStart ==
    /\ ~translating
    /\ pc # "dispatch"
    /\ \E i \in 1..Len(scenes) : Truthy(NarrationsOf(scenes)[i])
    /\ IF ai
       THEN /\ translating' = TRUE
            /\ error' = UNDEF
            /\ taNarrations' = NarrationsOf(scenes)
       ELSE /\ error' = "API key not configured"
            /\ UNCHANGED <<translating, taNarrations>>
    /\ UNCHANGED <<hostVars, ai, tnb, turnVars>>
    /\ UNCHANGED <<respVars, payloadVars, chatVars>>

\* the remote response arrives: zip the result onto the scenes, or setError
TranslateAllSettle(response) ==
    /\ translating
    /\ pc # "dispatch"
    /\ LET r == translateNarrationsBatch(ai, taNarrations, response)
       IN  IF r.outcome = "ok"
           THEN /\ scenes' = OverlayFlat(scenes, r.result)
                /\ showTranslated' = TRUE
                /\ UNCHANGED error
           ELSE /\ error' = r.message
                /\ UNCHANGED <<scenes, showTranslated>>
    /\ translating' = FALSE
    /\ UNCHANGED <<projectName, youtubeTitle, youtubeDescription, youtubeThumbnailBlob, taNarrations, ai, tnb, turnVars>>
    /\ UNCHANGED <<respVars, payloadVars, chatVars>>

\* ------------------------------------------------------- handleChatSend
\* One entry of sends per invocation: its message, where it stands ("creating": awaiting
\* createAssistantChat; "awaitModel": awaiting sendAssistantMessage, itself suspended on
\* chat.sendMessage; "done"), the chat handle it sends on (0: none) and the position in chatMessages of the
\* empty assistant entry it pushed (0: none).  A chat handle is named by the invocation
\* that created it.
Entry(role, content) == [role |-> role, content |-> content]

\* onChunk(t): the content of the last entry is replaced if that entry is the assistant's
OnChunk(list, t) == IF Len(list) > 0 /\ list[Len(list)].role = "assistant" THEN [list EXCEPT ![Len(list)].content = t] ELSE list

\* the catch block: the message goes into the last entry if that is an empty assistant
\* entry, and into a new entry otherwise
OnError(list, msg) == IF Len(list) > 0 /\ list[Len(list)].role = "assistant" /\ list[Len(list)].content = "" THEN [list EXCEPT ![Len(list)].content = msg] ELSE Append(list, Entry("assistant", msg))

\* handleChatSend(msg) up to its first await.  Nothing tests chatLoading or a turn in flight.
ChatSendStart(msg) ==
    /\ Len(sends) < MaxSends
    /\ msg # ""
    /\ chatLoading' = TRUE
    /\ error' = UNDEF
    /\ IF assistantChatRef = 0
       THEN /\ sends' = Append(sends, [message |-> msg, pc |-> "creating", chat |-> 0, slot |-> 0])
            /\ chatMessages' = Append(chatMessages, Entry("user", msg))
       ELSE /\ sends' = Append(sends, [message |-> msg, pc |-> "awaitModel", chat |-> assistantChatRef, slot |-> Len(chatMessages) + 2])
            /\ chatMessages' = Append(Append(chatMessages, Entry("user", msg)), Entry("assistant", ""))
    /\ UNCHANGED <<hostVars, translating, taNarrations, ai, tnb, turnVars, respVars, payloadVars, assistantChatRef>>

\* mutant: a chat is created without a key
createAssistantChat_Always(key, i) == i
\* createAssistantChat(): if (!ai) return null; else the chat ai.chats.create(...) made,
\* named i
createAssistantChat(key, i) == IF key THEN i ELSE 0

\* createAssistantChat() resolved for invocation i; without a chat the message about the
\* key is pushed and the invocation returns through the finally block
ChatCreated(i) ==
    /\ i \in 1..Len(sends)
    /\ sends[i].pc = "creating"
    /\ IF createAssistantChat(ai, i) # 0
       THEN /\ assistantChatRef' = createAssistantChat(ai, i)
            /\ sends' = [sends EXCEPT ![i].pc = "awaitModel", ![i].chat = i, ![i].slot = Len(chatMessages) + 1]
            /\ chatMessages' = Append(chatMessages, Entry("assistant", ""))
            /\ UNCHANGED chatLoading
       ELSE /\ assistantChatRef' = createAssistantChat(ai, i)
            /\ sends' = [sends EXCEPT ![i].pc = "done"]
            /\ chatMessages' = Append(chatMessages, Entry("assistant", "API key not configured. Add REACT_APP_GEMINI_API_KEY to .env"))
            /\ chatLoading' = FALSE
    /\ UNCHANGED <<hostVars, taVars, tnb, turnVars, respVars, payloadVars>>

\* sendAssistantMessage of invocation i resolved with a plain text reply: onChunk(reply),
\* then the finally block
ChatReply(i, reply) ==
    /\ i \in 1..Len(sends)
    /\ sends[i].pc = "awaitModel"
    /\ chatMessages' = OnChunk(chatMessages, reply)
    /\ chatLoading' = FALSE
    /\ sends' = [sends EXCEPT ![i].pc = "done"]
    /\ UNCHANGED <<hostVars, taVars, tnb, turnVars, respVars, payloadVars, assistantChatRef>>

\* chat.sendMessage of invocation i rejected: the catch block, then the finally block
ChatFails(i) ==
    /\ i \in 1..Len(sends)
    /\ sends[i].pc = "awaitModel"
    /\ chatMessages' = OnError(chatMessages, "Failed to fetch")
    /\ error' = "Failed to fetch"
    /\ chatLoading' = FALSE
    /\ sends' = [sends EXCEPT ![i].pc = "done"]
    /\ UNCHANGED <<hostVars, translating, taNarrations, ai, tnb, turnVars, respVars, payloadVars, assistantChatRef>>

\* ------------------------------------------------ Spec: the dispatch loop
\* The calls a batch of Spec is drawn from: every branch, each required argument
\* present and missing, the two translate shapes, a call the host callback throws on.
OneScene == <<Item(1, "A hero wakes", "[excited] Today is the day")>>
TwoScenes == <<Item(2, "A hero sleeps", "[calm] Good night"), Item(1, "A hero wakes", UNDEF)>>
BatchCalls == {
    ScriptCall("array", OneScene),
    ScriptCall("array", TwoScenes),
    ScriptCall("absent", <<>>),
    ScriptCall("array", <<NullItem>>),
    FlatTranslateCall("French", <<"[excited] Aujourd'hui est le jour">>),
    BareTranslateCall("French"),
    SparseTranslateCall("French", <<Item(2, UNDEF, "Le jour")>>),
    FlatTranslateCall(UNDEF, <<"[excited] Aujourd'hui est le jour">>),
    TitleCall("Hero"),
    TitleCall(UNDEF),
    DescriptionCall("A hero's day"),
    ThumbnailCall,
    ThumbnailCallWith(" A hero at dawn ", "expensive", UNDEF),
    ThumbnailCallWith("   ", UNDEF, "expensive"),
    ThumbnailCallWith(UNDEF, "cheap", "expensive"),
    UnknownCall }

Batches == UNION {[1..k -> BatchCalls] : k \in 1..MaxBatch}

\* The free texts of Spec: none, prose, prose with a bracketed tag, a scene array alone,
\* within prose, within fences, after and before prose that holds a bracketed tag, and
\* arrays that are empty, hold nothing to keep, or hold it in part.
SceneJson == "[{\"sceneNumber\": 1, \"description\": \"A hero wakes\", \"narration\": \"[excited] Today is the day\"}]"
MixedItems == <<NullItem, Item(2, "A hero sleeps", UNDEF), Item(3, UNDEF, UNDEF), Item(NoNumber, "", "")>>
Texts == {
    NoText,
    [raw |-> "Sure, what tone do you want?", tokens |-> <<Prose>>],
    [raw |-> "Use a [whispering] tone.", tokens |-> <<Prose, Tag, Prose>>],
    [raw |-> SceneJson, tokens |-> <<ArrayText(OneScene)>>],
    [raw |-> "Here is your script: " \o SceneJson \o " Enjoy!", tokens |-> <<Prose, ArrayText(OneScene), Prose>>],
    [raw |-> "<fence>json\n" \o SceneJson \o "\n<fence>", tokens |-> <<Fence, ArrayText(OneScene), Fence>>],
    [raw |-> "Here it is, read it in a [whispering] tone:\n<fence>json\n" \o SceneJson \o "\n<fence>", tokens |-> <<Prose, Tag, Prose, Fence, ArrayText(OneScene), Fence>>],
    [raw |-> SceneJson \o " Read it in a [calm] voice.", tokens |-> <<ArrayText(OneScene), Prose, Tag, Prose>>],
    [raw |-> "Two drafts: " \o SceneJson \o " or " \o SceneJson, tokens |-> <<Prose, ArrayText(OneScene), Prose, ArrayText(OneScene)>>],
    [raw |-> "[]", tokens |-> <<ArrayText(<<>>)>>],
    [raw |-> "[null, {\"sceneNumber\": 3}]", tokens |-> <<ArrayText(<<NullItem, Item(3, UNDEF, UNDEF)>>)>>],
    [raw |-> "[null, {\"sceneNumber\": 2, \"description\": \"A hero sleeps\"}, {\"sceneNumber\": 3}, {\"description\": \"\", \"narration\": \"\"}]", tokens |-> <<ArrayText(MixedItems)>>] }

\* The batches a response with free text carries: none, or calls that are all skipped, or
\* a call that is handled.
TextBatches == {<<>>, <<UnknownCall>>, <<TitleCall(UNDEF), ScriptCall("absent", <<>>)>>, <<TitleCall("Hero")>>}

HostIdle ==
    /\ projectName = UNDEF
    /\ showTranslated = FALSE
    /\ youtubeTitle = ""
    /\ youtubeDescription = ""
    /\ youtubeThumbnailBlob = NoBlob
    /\ translating = FALSE
    /\ error = UNDEF
    /\ taNarrations = <<>>
    /\ tnb = NoCall
    /\ sends = <<>>
    /\ assistantChatRef = 0
    /\ chatLoading = FALSE
    /\ chatMessages = <<>>

TurnIdle ==
    /\ pc = "idle"
    /\ functionCalls = <<>>
    /\ fcIdx = 1
    /\ confirmText = ""
    /\ ret = NoReturn
    /\ chunks = <<>>
    /\ log = <<>>
    /\ text = NoText
    /\ parsed = NotParsed
    /\ thumbRequest = NoRequest
    /\ message = ""
    /\ anchorImages = NoImages
    /\ scenesArg = <<>>
    /\ scriptContext = <<>>
    /\ textPayload = <<>>
    /\ messageContent = NoContent

Init ==
    /\ ai = TRUE
    /\ scenes \in {<<>>, <<[initialScene(Item(1, "Old scene", "Old narration")) EXCEPT !.imageBlob = "old-image.png"]>>}
    /\ HostIdle
    /\ TurnIdle

Next ==
    \/ SendAssistantMessage
    \/ pc = "awaitModel" /\ \E calls \in Batches : ModelResponds(calls)
    \/ pc = "awaitModel" /\ \E calls \in TextBatches, t \in Texts : ModelRespondsText(calls, t)
    \/ Dispatch
    \/ Fallback

Spec == Init /\ [][Next]_vars

\* ---------------------------------------- SpecTNB: translateNarrationsBatch
Narrations == {"[whispering] Hello", "Bye"}
Elements == {Str("[whispering] Bonjour"), Str("Au revoir"), Str("[whispering] Dites <fence>bonjour<fence>"), JsonNull, JsonNumber}
Responses ==
    {NoResponse, InvalidJson}
    \cup {JsonScalar(e, f) : e \in {Str("Bonjour"), JsonObject, JsonNull}, f \in BOOLEAN}
    \cup {JsonArray(items, f) : items \in SeqsUpTo(Elements, MaxScenes + 1), f \in BOOLEAN}

InitTNB ==
    /\ ai \in BOOLEAN
    /\ scenes = <<>>
    /\ HostIdle
    /\ TurnIdle

NextTNB == \E narrations \in SeqsUpTo(Narrations, MaxScenes), response \in Responses : TranslateNarrationsBatchCall(narrations, response)

SpecTNB == InitTNB /\ [][NextTNB]_vars

\* ------------------------------------------------ SpecChat: handleChatSend
\* The user sends up to MaxSends messages, at any moment; the model answers each turn
\* with plain text or the round trip fails.
ChatMessagesIn == {"Write a script about a hero", "Make it shorter"}
ChatReplies == {"Sure, what tone do you want?", "Done."}

InitChat ==
    /\ ai \in BOOLEAN
    /\ scenes = <<>>
    /\ HostIdle
    /\ TurnIdle

NextChat ==
    \/ \E msg \in ChatMessagesIn : ChatSendStart(msg)
    \/ \E i \in 1..MaxSends : ChatCreated(i)
    \/ \E i \in 1..MaxSends, reply \in ChatReplies : ChatReply(i, reply)
    \/ \E i \in 1..MaxSends : ChatFails(i)
    \/ \E msg \in ChatMessagesIn : SendMessageNoChat(msg)

SpecChat == InitChat /\ [][NextChat]_vars

\* The same, with every await settling: createAssistantChat resolves, and
\* sendAssistantMessage resolves or rejects.
ChatSettles(i) == ChatFails(i) \/ \E reply \in ChatReplies : ChatReply(i, reply)
SpecChatLive == SpecChat /\ \A i \in 1..MaxSends : WF_vars(ChatCreated(i)) /\ WF_vars(ChatSettles(i))

\* ------------------------------------- SpecCtx: the outbound text of a turn
\* Scene lists as the host holds them (every field a string, '' when not set, the
\* number 0 when the model gave none), a message, anchor images set or not; the model
\* answers with plain text.
CtxScenes == {[sceneNumber |-> n, description |-> d, narration |-> nar, narrationTranslated |-> nt, imageBlob |-> NoBlob, audioBlob |-> NoBlob] : n \in {0, 2}, d \in {"", "A hero wakes"}, nar \in {"", "[excited] Today is the day"}, nt \in {"", "[excited] Aujourd'hui est le jour"}}
CtxMessages == {"Make it shorter", "Translate scene 2 to French"}
CtxImages == {NoImages, <<NoBlob, "anchor2.png", NoBlob>>}

InitCtx ==
    /\ ai = TRUE
    /\ scenes \in SeqsUpTo(CtxScenes, MaxScenes)
    /\ HostIdle
    /\ TurnIdle

NextCtx ==
    \/ \E msg \in CtxMessages, images \in CtxImages : SendMessage(msg, images)
    \/ \E reply \in {NoText, [raw |-> "Done.", tokens |-> <<Prose>>]} : ModelRespondsText(<<>>, reply)
    \/ Fallback

SpecCtx == InitCtx /\ [][NextCtx]_vars

\* ------------------------------------------ SpecTr: the translation effects
\* One chat turn with one translate call, after any number of Translate-all runs of the
\* host (the runs are explored before the turn is sent).
\* Scene lists the host can hold when a translation arrives: built by
\* handleAssistantScript from the model's scene numbers (any numbers, in any order),
\* then translated or given media by the host.
SceneNumbers == {1, 2}
SceneStates == {[sceneNumber |-> n, description |-> "A hero wakes", narration |-> "[excited] Today is the day", narrationTranslated |-> m[1], imageBlob |-> m[2], audioBlob |-> m[3]] : n \in SceneNumbers, m \in {<<"", NoBlob, NoBlob>>, <<"old translation", "image.png", "audio.wav">>}}
TranslatedTexts == {"", "[excited] Aujourd'hui est le jour"}
SparseEntries == {Item(n, UNDEF, "Le jour") : n \in {1, 3}} \cup {Item(NoNumber, UNDEF, UNDEF)}
TranslateCalls ==
    {FlatTranslateCall("French", tn) : tn \in SeqsUpTo(TranslatedTexts, MaxScenes + 1)}
    \cup {SparseTranslateCall("French", entries) : entries \in SeqsUpTo(SparseEntries, MaxSparse)}
    \cup {BareTranslateCall("French")}
TrResponses ==
    {NoResponse, InvalidJson, JsonScalar(Str("Bonjour"), FALSE)}
    \cup {JsonArray(items, FALSE) : items \in SeqsUpTo({Str("Bonjour"), JsonNull}, MaxScenes + 1)}

InitTr ==
    /\ ai = TRUE
    /\ scenes \in SeqsUpTo(SceneStates, MaxScenes)
    /\ HostIdle
    /\ TurnIdle

NextTr ==
    \/ SendAssistantMessage
    \/ pc = "awaitModel" /\ \E fc \in TranslateCalls : ModelResponds(<<fc>>)
    \/ DispatchTranslate
    \/ ReturnConfirmation
    \/ pc = "idle" /\ TranslateAllStart
    \/ pc = "idle" /\ \E response \in TrResponses : TranslateAllSettle(response)

SpecTr == InitTr /\ [][NextTr]_vars

\* ------------------------- SpecRace: Translate-all beside a chat turn
\* The host's Translate-all runs while a chat turn that replaces the script is under way:
\* each handler runs to its next await without interruption, and the two interleave at
\* their awaits.
RaceCalls == {ScriptCall("array", OneScene), ScriptCall("array", TwoScenes), ScriptCall("absent", <<>>)}
RaceResponses == {InvalidJson, JsonArray(<<Str("Bonjour")>>, FALSE), JsonArray(<<Str("Bonjour"), Str("Bonsoir")>>, FALSE)}

NextRace ==
    \/ SendAssistantMessage
    \/ pc = "awaitModel" /\ \E calls \in SeqsUpTo(RaceCalls, 2) : ModelResponds(calls)
    \/ DispatchScript
    \/ SkipCall
    \/ ReturnConfirmation
    \/ TranslateAllStart
    \/ \E response \in RaceResponses : TranslateAllSettle(response)

SpecRace == Init /\ [][NextRace]_vars

\* ------------------------------------------------------------ the claims
\* The wire schema of chatTools: the known tools and their required arguments.
KnownTools == {"generateMovieScript", "translateNarrations", "generateYouTubeTitle", "generateYouTubeDescription", "generateYouTubeThumbnail"}
RequiredMissing(fc) ==
    \/ fc.name = "generateMovieScript" /\ fc.scenesKind = "absent"
    \/ fc.name = "translateNarrations" /\ fc.targetLanguage = UNDEF
    \/ fc.name = "generateYouTubeTitle" /\ fc.title = UNDEF
    \/ fc.name = "generateYouTubeDescription" /\ fc.description = UNDEF
\* a call the claims name malformed or unknown
MalformedCall(fc) == fc.name \notin KnownTools \/ RequiredMissing(fc)
\* a call whose arguments are as the schema declares them
ValidCall(fc) ==
    /\ fc.name \in KnownTools
    /\ ~RequiredMissing(fc)
    /\ fc.name = "generateMovieScript" => (fc.scenesKind = "array" /\ \A i \in 1..Len(fc.scenes) : ~fc.scenes[i].isNull)
    /\ fc.name = "translateNarrations" => (fc.tnKind = "array" \/ fc.scenesKind = "array")

Events(k) == {log[j][2] : j \in {i \in 1..Len(log) : log[i][1] = k}}
\* the handler of call k was entered: a host callback, or the thumbnail generator
Invoked(k) == Events(k) # {}
\* the effect of call k reached host state
Applied(k) ==
    LET fc == functionCalls[k]
    IN  \/ "onScript" \in Events(k) /\ fc.scenesKind = "array" /\ ~AssistantScriptThrows(fc)
        \/ "onTranslateNarrations" \in Events(k) /\ (IF fc.tnKind = "array" THEN Len(fc.translatedNarrations) > 0 ELSE Len(fc.scenes) > 0)
        \/ "onYouTubeTitle" \in Events(k)
        \/ "onYouTubeDescription" \in Events(k)
        \/ "onYouTubeThumbnail" \in Events(k)
CannedSentence(fc) ==
    IF fc.name = "generateMovieScript" THEN ScriptSentence
    ELSE IF fc.name = "translateNarrations" THEN TranslateSentence(fc.targetLanguage)
    ELSE IF fc.name = "generateYouTubeTitle" THEN TitleSentence
    ELSE IF fc.name = "generateYouTubeDescription" THEN DescriptionSentence
    ELSE ThumbnailSentence
Calls == 1..Len(functionCalls)
TurnReturned == pc = "done" /\ ret.status = "returned"

\* C1: in a batch holding a malformed call (a required argument missing) or a call to
\* an unknown tool, that call invokes no callback, every valid call of the batch has
\* its handler invoked, and sendAssistantMessage returns normally.
C1_MalformedCallIsolated ==
    (\E k \in Calls : MalformedCall(functionCalls[k])) =>
        /\ \A k \in Calls : MalformedCall(functionCalls[k]) => ~Invoked(k)
        /\ pc = "done" => /\ ret.status = "returned"
                          /\ \A k \in Calls : ValidCall(functionCalls[k]) => Invoked(k)

\* C2: a failing handler (the thumbnail generator rejecting, a host callback throwing)
\* never makes sendAssistantMessage throw, and the calls after it are still processed.
C2_HandlerFailureContained == pc = "done" => (ret.status = "returned" /\ fcIdx = Len(functionCalls) + 1)

\* C3: the text returned for a batch is the canned sentence of the first call, in
\* arrival order, whose effect was applied.
C3_FirstAppliedWins ==
    (TurnReturned /\ \E k \in Calls : Applied(k)) =>
        LET first == CHOOSE k \in Calls : Applied(k) /\ \A j \in 1..(k - 1) : ~Applied(j)
        IN  ret.text = CannedSentence(functionCalls[first])

\* C4: when no call of the batch had its effect applied, the text returned is empty.
C4_NothingAppliedEmptyText == (TurnReturned /\ Len(functionCalls) > 0 /\ \A k \in Calls : ~Applied(k)) => ret.text = ""

NarrationTranslatedOf(list) == [i \in 1..Len(list) |-> list[i].narrationTranslated]
AtTranslate == AtCall /\ cur.name = "translateNarrations" /\ Truthy(cur.targetLanguage)
AtFlatTranslate == AtTranslate /\ cur.tnKind = "array"
AtSparseTranslate == AtTranslate /\ cur.tnKind # "array" /\ cur.scenesKind = "array"

\* C5: a flat translateNarrations call whose array length differs from the number of
\* scenes changes no scene's narrationTranslated.
C5_LengthMismatchRejected == [][(AtFlatTranslate /\ Len(cur.translatedNarrations) # Len(scenes)) => NarrationTranslatedOf(scenes') = NarrationTranslatedOf(scenes)]_vars

\* C6: a flat translateNarrations call whose array is as long as the scene list sets
\* narrationTranslated of the scene at position i to translatedNarrations[i], for every i.
C6_FlatOverlayByPosition == [][(AtFlatTranslate /\ Len(cur.translatedNarrations) = Len(scenes)) => (Len(scenes') = Len(scenes) /\ \A i \in 1..Len(scenes) : scenes'[i].narrationTranslated = cur.translatedNarrations[i])]_vars
C6_Witness ==
    /\ pc = "done"
    /\ Len(scenes) = 2
    /\ functionCalls[1].tnKind = "array"
    /\ Len(functionCalls[1].translatedNarrations) = 2
    /\ "onTranslateNarrations" \in Events(1)
    /\ \A i \in 1..2 : scenes[i].narrationTranslated = functionCalls[1].translatedNarrations[i]
    /\ scenes[1].narrationTranslated # scenes[2].narrationTranslated

\* C7: after a sparse translateNarrations call every scene whose sceneNumber the list
\* names carries the narration given for it, and every other scene has the empty string.
C7_SparseTotalReplace ==
    [][(AtSparseTranslate /\ Len(cur.scenes) > 0) =>
        /\ Len(scenes') = Len(scenes)
        /\ \A i \in 1..Len(scenes) :
              LET naming == {k \in 1..Len(cur.scenes) : cur.scenes[k].sceneNumber = scenes[i].sceneNumber}
              IN  IF naming = {} THEN scenes'[i].narrationTranslated = ""
                  ELSE \E k \in naming : scenes'[i].narrationTranslated = Nullish(cur.scenes[k].narration, "")]_vars

\* C8: a translation effect (flat or sparse chat call, or the host's Translate-all)
\* keeps the number and order of the scenes and every field but narrationTranslated.
Untranslated(s) == [s EXCEPT !.narrationTranslated = ""]
C8_TranslateFrame == [][((AtCall /\ cur.name = "translateNarrations") \/ (translating /\ ~translating')) => (Len(scenes') = Len(scenes) /\ \A i \in 1..Len(scenes) : Untranslated(scenes'[i]) = Untranslated(scenes[i]))]_vars
C8_Witness ==
    /\ Len(scenes) = 2
    /\ showTranslated
    /\ scenes[1].imageBlob = "image.png" /\ scenes[1].audioBlob = "audio.wav"
    /\ scenes[1].narrationTranslated = "Bonjour"
    /\ scenes[2].narrationTranslated = "Bonjour"
    /\ scenes[2].sceneNumber = 1

\* C9: translateNarrationsBatch returns a list as long as its input, element i being
\* the text of element i of the parsed response, or fails.
C9_LengthPreserved ==
    tnb.outcome = "ok" =>
        /\ Len(tnb.result) = Len(tnb.narrations)
        /\ Len(tnb.narrations) > 0 => \A i \in 1..Len(tnb.result) : tnb.result[i] = JsString(StripFences(tnb.response).items[i])
C9_Witness ==
    /\ tnb.outcome = "ok"
    /\ Len(tnb.narrations) = 2
    /\ tnb.response.isArray
    /\ tnb.result = <<"Au revoir", "[whispering] Bonjour">>

\* C10: translateNarrationsBatch fails whenever the remote result is missing, is not
\* parseable JSON or is not a JSON array of strings.
ArrayOfStrings(response) == response.kind = "json" /\ response.isArray /\ \A i \in 1..Len(response.items) : response.items[i].t = "string"
C10_MalformedResponseFails == (tnb.called /\ ai /\ Len(tnb.narrations) > 0 /\ ~ArrayOfStrings(tnb.response)) => tnb.outcome = "error"

\* C11 (as claimed): called with an empty list, translateNarrationsBatch returns an
\* empty list and makes no remote call, in every configuration, no key included.
C11_EmptyInputReturnsEmpty == (tnb.called /\ Len(tnb.narrations) = 0) => (tnb.outcome = "ok" /\ tnb.result = <<>> /\ ~tnb.remote)

\* C11 (amended): called with an empty list, translateNarrationsBatch makes no remote
\* call; with a key configured it returns an empty list, without one it fails with
\* 'API key not configured'.
C11_EmptyInputNoRemoteCall ==
    (tnb.called /\ Len(tnb.narrations) = 0) =>
        /\ ~tnb.remote
        /\ IF ai THEN tnb.outcome = "ok" /\ tnb.result = <<>>
                 ELSE tnb.outcome = "error" /\ tnb.message = "API key not configured"
C11_Witness == tnb.called /\ ai /\ Len(tnb.narrations) = 0 /\ tnb.response.kind = "json" /\ tnb.outcome = "ok" /\ tnb.result = <<>>

\* C12: when the remote response is a well-formed JSON array of strings as long as the
\* input, element i of the returned list is exactly element i of the response.
C12_ElementsUnmodified ==
    (tnb.called /\ ai /\ Len(tnb.narrations) > 0 /\ ArrayOfStrings(tnb.response) /\ Len(tnb.response.items) = Len(tnb.narrations)) =>
        /\ tnb.outcome = "ok"
        /\ Len(tnb.result) = Len(tnb.response.items)
        /\ \A i \in 1..Len(tnb.response.items) : tnb.result[i] = tnb.response.items[i].s

\* C13: within a turn tryParseScriptFromText is attempted only if the response carries
\* no function call; when it carries one or more, even all skipped, the free text is
\* never parsed and onScript is never invoked from the fallback path.
FallbackEvents == {j \in 1..Len(log) : log[j][1] = 0}
C13_FallbackOnlyWithoutCalls ==
    /\ parsed.attempted => Len(functionCalls) = 0
    /\ Len(functionCalls) > 0 => (~parsed.attempted /\ FallbackEvents = {} /\ pc # "fallback")
C13_Witness ==
    /\ pc = "done"
    /\ Len(functionCalls) = 2
    /\ \A k \in Calls : ~Invoked(k)
    /\ ~tryParseScriptFromText(text).isNull
    /\ ~parsed.attempted
    /\ scenes = scenesArg

\* an element with a non-empty description or narration
HasText(s) == ~s.isNull /\ ((s.description # UNDEF /\ s.description # "") \/ (s.narration # UNDEF /\ s.narration # ""))
\* the pieces of the free text that hold square brackets
BracketedPieces == {i \in 1..Len(text.tokens) : text.tokens[i].k \in {"tag", "array"}}
EmptyText == text.raw = ""
NoBracketedPart == BracketedPieces = {}
\* the span from the first '[' to the last ']' is not the text of one JSON array
UnparsableBrackets == BracketedPieces # {} /\ (Cardinality(BracketedPieces) > 1 \/ \E i \in BracketedPieces : text.tokens[i].k = "tag")
\* the span is one array that is empty or has no element with a description or narration
NothingToKeep == \E i \in BracketedPieces : BracketedPieces = {i} /\ text.tokens[i].k = "array" /\ \A j \in 1..Len(text.tokens[i].items) : ~HasText(text.tokens[i].items[j])

\* C14: tryParseScriptFromText returns a non-null result only if the recovered array has
\* an element with a non-empty description or narration; it returns null, and does not
\* throw, for empty text, text without a bracketed part, a bracketed part that fails to
\* parse, and an array that is empty or has no such element.
C14_FallbackNullOrMeaningful ==
    parsed.attempted =>
        /\ ~parsed.isNull =>
              /\ \E i \in BracketedPieces : \E j \in 1..Len(text.tokens[i].items) : HasText(text.tokens[i].items[j])
              /\ Len(parsed.scenes) > 0
              /\ \A j \in 1..Len(parsed.scenes) : HasText(parsed.scenes[j])
        /\ (EmptyText \/ NoBracketedPart \/ UnparsableBrackets \/ NothingToKeep) => parsed.isNull
        /\ ret.status = "returned"
C14_Witness ==
    /\ parsed.attempted
    /\ ~parsed.isNull
    /\ \E i \in BracketedPieces : Len(text.tokens[i].items) = 4
    /\ Len(parsed.scenes) = 1
    /\ Len(scenes) = 1
    /\ scenes[1].description = "A hero sleeps"

\* the free text is one valid scene array (every element with number, description and
\* narration) with prose, bracketed tags and fence markers around it
ArrayPieces == {i \in 1..Len(text.tokens) : text.tokens[i].k = "array"}
ValidSceneItem(s) == ~s.isNull /\ s.sceneNumber # NoNumber /\ Truthy(s.description) /\ Truthy(s.narration)
SceneArrayInProse == \E i \in ArrayPieces : ArrayPieces = {i} /\ Len(text.tokens[i].items) > 0 /\ \A j \in 1..Len(text.tokens[i].items) : ValidSceneItem(text.tokens[i].items[j])

\* C15: a response without function calls whose free text is a valid scene array
\* surrounded by prose and / or fence markers, prose with square brackets included,
\* yields exactly one onScript call carrying the scenes of that array.
C15_ArrayInProseYieldsScript ==
    (pc = "done" /\ Len(functionCalls) = 0 /\ SceneArrayInProse) =>
        /\ log = <<<<0, "onScript">>>>
        /\ ret.functionCalled
        /\ \E i \in ArrayPieces : scenes = [j \in 1..Len(text.tokens[i].items) |-> initialScene(text.tokens[i].items[j])]

\* C16: when a response has no function call and tryParseScriptFromText returns null,
\* sendAssistantMessage invokes no effect callback, leaves host state alone, and returns
\* the free text of the model with functionCalled false.
C16_PlainTextReply ==
    (pc = "done" /\ Len(functionCalls) = 0 /\ parsed.attempted /\ parsed.isNull) =>
        /\ log = <<>>
        /\ scenes = scenesArg /\ projectName = UNDEF /\ ~showTranslated
        /\ youtubeTitle = "" /\ youtubeDescription = "" /\ youtubeThumbnailBlob = NoBlob
        /\ ret.status = "returned" /\ ret.text = text.raw /\ ~ret.functionCalled
C16_Witness ==
    /\ pc = "done"
    /\ Len(functionCalls) = 0
    /\ parsed.attempted /\ parsed.isNull
    /\ Len(scenes) = 1
    /\ ret.text = "Use a [whispering] tone."
    /\ ~ret.functionCalled
    /\ chunks = <<"Use a [whispering] tone.">>

\* C17: at most one turn is in flight per chat session: chat.sendMessage is never
\* pending twice on the same chat handle.
InFlight(i) == sends[i].pc = "awaitModel"
C17_OneTurnInFlight == \A i, j \in 1..Len(sends) : (i # j /\ InFlight(i) /\ InFlight(j)) => sends[i].chat # sends[j].chat

\* C18: at every point where sendAssistantMessage is suspended, on the model round trip
\* or on the thumbnail generator, host state (scene list, YouTube title, description,
\* thumbnail) equals its value at the start of the turn.
Suspended == pc \in {"awaitModel", "awaitThumb"}
C18_NoMutationWhileSuspended ==
    Suspended =>
        /\ scenes = scenesArg /\ projectName = UNDEF /\ ~showTranslated
        /\ youtubeTitle = "" /\ youtubeDescription = "" /\ youtubeThumbnailBlob = NoBlob

\* C19: the text payload of a turn is exactly the message when the scene list is empty
\* (no label, no delimiter) and otherwise the rendered context, the delimiter and the
\* message unmodified; buildScriptContext of an empty list is the empty string.  What
\* chat.sendMessage is given is that payload, behind the image preface when an anchor
\* image is set.
Sent == pc # "idle"
C19_TextPayload ==
    Sent =>
        /\ Len(scenesArg) = 0 => (scriptContext = <<>> /\ textPayload = <<message>>)
        /\ Len(scenesArg) > 0 =>
              /\ Len(scriptContext) > 0
              /\ scriptContext[1] = "CURRENT SCRIPT:"
              /\ textPayload = scriptContext \o <<"", "USER MESSAGE:", message>>
        /\ IF anchorImages = NoImages THEN messageContent.text = textPayload
           ELSE SubSeq(messageContent.text, 3, Len(messageContent.text)) = textPayload
C19_Witness ==
    /\ pc = "awaitModel"
    /\ Len(scenesArg) = 2
    /\ message = "Translate scene 2 to French"
    /\ textPayload[Len(textPayload)] = message
    /\ textPayload[Len(textPayload) - 1] = "USER MESSAGE:"
    /\ Len(textPayload) = Len(scriptContext) + 3

\* C20: the context has exactly one block per scene, in scene-list order, each giving
\* the scene's number, description and original narration ('(none)' for an empty one),
\* and a block has a 'Narration (translated)' line exactly when the scene's
\* narrationTranslated is set (not empty).
Header(s) == "Scene " \o ToString(s.sceneNumber) \o ":"
Shown(x) == IF x = "" THEN "(none)" ELSE x
Heads == {j \in 1..Len(scriptContext) : \E i \in 1..Len(scenesArg) : scriptContext[j] = Header(scenesArg[i])}
HeadOf(i) == CHOOSE j \in Heads : Cardinality({h \in Heads : h < j}) = i - 1
EndOf(i) == IF i = Len(scenesArg) THEN Len(scriptContext) ELSE HeadOf(i + 1) - 2
CarriesSceneKeys(s) == ~s.isNull /\ s.sceneNumber # NoNumber /\ s.description # UNDEF /\ s.narration # UNDEF
SchemaExact(fc) ==
    /\ fc.name \in KnownTools
    /\ ~RequiredMissing(fc)
    /\ fc.name = "generateMovieScript" => (fc.scenesKind = "array" /\ \A i \in 1..Len(fc.scenes) : CarriesSceneKeys(fc.scenes[i]))

\* C23: a tool call is dispatched as an effect only if its arguments satisfy the wire
\* schema: generateMovieScript only with an array whose every element carries
\* sceneNumber, description and narration, title / description only with their string;
\* a call violating the schema invokes no handler.
C23_OnlySchemaValidDispatched == \A k \in Calls : Invoked(k) => SchemaExact(functionCalls[k])

\* C25: when a response carries tool calls together with free text and the confirmation
\* text of the batch is empty, the text shown for the turn (onChunk, returned text) is
\* the free text of the model, not the empty string.
C25_RawTextFallthrough ==
    (TurnReturned /\ Len(functionCalls) > 0 /\ confirmText = "" /\ text.raw # "") =>
        (ret.text = text.raw /\ chunks = <<text.raw>>)

\* C26: whenever thumbnail generation fails inside a batch, the text shown for the turn
\* holds the 'Thumbnail generation failed' sentence, whatever else the batch holds and
\* wherever the thumbnail call sits.
C26_ThumbnailFailureReported ==
    (TurnReturned /\ \E k \in Calls : "thumbnailFailed" \in Events(k)) =>
        (ret.text = ThumbnailFailedSentence /\ chunks = <<ThumbnailFailedSentence>>)

\* C24: within a batch the handlers are invoked in the order the calls arrived and never
\* overlap: the handler of call k, an awaited thumbnail generation included, has
\* completed or failed before the handler of call k + 1 starts.
C24_HandlersInOrder ==
    /\ \A i, j \in 1..Len(log) : i < j => log[i][1] <= log[j][1]
    /\ \A j \in 1..Len(log) :
          log[j][2] = "genThumbnail" =>
              IF j = Len(log) THEN pc = "awaitThumb" /\ fcIdx = log[j][1]
              ELSE log[j + 1][1] = log[j][1] /\ log[j + 1][2] \in {"onYouTubeThumbnail", "thumbnailFailed"}
    /\ pc = "awaitThumb" => (Len(log) > 0 /\ log[Len(log)] = <<fcIdx, "genThumbnail">>)
C24_Witness ==
    /\ pc = "done"
    /\ Len(functionCalls) = 3
    /\ log = <<<<1, "genThumbnail">>, <<1, "onYouTubeThumbnail">>, <<2, "onYouTubeTitle">>, <<3, "genThumbnail">>, <<3, "thumbnailFailed">>>>
    /\ youtubeTitle = "Hero"

\* the scene list is replaced by the scenes of S, element by element
SubstitutedBy(S) ==
    /\ Len(scenes') = Len(S)
    /\ \A i \in 1..Len(S) :
          /\ S[i].sceneNumber # NoNumber => scenes'[i].sceneNumber = S[i].sceneNumber
          /\ S[i].description # UNDEF => scenes'[i].description = S[i].description
          /\ S[i].narration # UNDEF => scenes'[i].narration = S[i].narration
ScriptEffectAtCall == AtCall /\ Branch(cur) = "script" /\ cur.scenesKind = "array" /\ ~AssistantScriptThrows(cur)
ScriptEffectAtFallback == pc = "fallback" /\ ~parsed'.isNull

\* C28: the scene list changes length only by whole-list substitution: after a script
\* effect with scenes S, from a tool call or from the fallback extractor, the list has
\* exactly |S| scenes in the order of S with S's sceneNumber, description and narration;
\* no other step of the core adds or removes a scene.
C28_WholeListSubstitution ==
    [][IF ScriptEffectAtCall THEN SubstitutedBy(cur.scenes)
       ELSE IF ScriptEffectAtFallback THEN SubstitutedBy(parsed'.scenes)
       ELSE Len(scenes') = Len(scenes)]_vars
C28_Witness ==
    /\ pc = "done"
    /\ Len(scenesArg) = 1
    /\ Len(functionCalls) = 2
    /\ log = <<<<1, "onScript">>, <<2, "onTranslateNarrations">>>>
    /\ Len(scenes) = 2
    /\ scenes[1].sceneNumber = 2 /\ scenes[2].sceneNumber = 1
    /\ scenes[1].narrationTranslated # ""

\* the last handler event of the turn is a script effect: the scene list is the one the
\* script made, and no translation has targeted any of its scenes
FreshScript ==
    /\ Len(log) > 0
    /\ log[Len(log)][2] = "onScript"
    /\ ret.status # "threw"
    /\ log[Len(log)][1] > 0 => functionCalls[log[Len(log)][1]].scenesKind = "array"

\* C30: narrationTranslated is absent for a scene until a translation effect targets it,
\* so that an untargeted scene differs from one translated to the empty string.
C30_AbsentUntilTranslated == FreshScript => \A i \in 1..Len(scenes) : scenes[i].narrationTranslated = UNDEF

\* a script effect was applied by an earlier call of the batch
ScriptAppliedBefore == \E k \in 1..(fcIdx - 1) : "onScript" \in Events(k) /\ functionCalls[k].scenesKind = "array"

\* C29: effects of one batch are applied progressively: a translateNarrations after a
\* generateMovieScript overlays the newly generated scenes, and a
\* generateYouTubeThumbnail after a generateMovieScript derives its fallback prompt and
\* its reference images from the newly generated script.
C29_ProgressiveEffects ==
    [][/\ (AtFlatTranslate /\ ScriptAppliedBefore /\ Len(cur.translatedNarrations) = Len(scenes)) =>
             \A i \in 1..Len(scenes) : scenes'[i] = [scenes[i] EXCEPT !.narrationTranslated = cur.translatedNarrations[i]]
       /\ (AtCall /\ Branch(cur) = "thumbnail" /\ ScriptAppliedBefore /\ ~Truthy(cur.prompt)) =>
             /\ thumbRequest'.prompt = buildScriptContext(scenes)
             /\ thumbRequest'.sceneBlobs = SceneBlobs(scenes)]_vars

\* C21: when chat.sendMessage fails the turn aborts: no effect callback runs, the scene
\* list and the YouTube metadata are unchanged, and handleChatSend records the error
\* message as the assistant's reply of that turn.
C21_FailureRecordedForTurn ==
    [][\A i \in 1..MaxSends : ChatFails(i) =>
          /\ UNCHANGED <<hostVars, log>>
          /\ chatMessages'[sends[i].slot] = Entry("assistant", "Failed to fetch")]_vars

\* the entries of the chat that carry the message about the missing key
KeyMessages == {k \in 1..Len(chatMessages) : chatMessages[k] = Entry("assistant", "API key not configured. Add REACT_APP_GEMINI_API_KEY to .env")}
ReturnedSends == {i \in 1..Len(sends) : sends[i].pc = "done"}

\* C22: without a credential a turn fails at once.  sendAssistantMessage called with a
\* null chat throws 'API key not configured' before it renders the context, sends
\* anything or invokes a callback; handleChatSend pushes the message about the key and
\* returns without ever awaiting sendAssistantMessage, and the scene list is unchanged.
C22_FailsFastWithoutCredential ==
    /\ pc = "done" =>
          /\ ret = ConfigurationError
          /\ messageContent = NoContent /\ textPayload = <<>> /\ scriptContext = <<>>
          /\ functionCalls = <<>> /\ log = <<>> /\ chunks = <<>>
    /\ ~ai =>
          /\ assistantChatRef = 0
          /\ \A i \in 1..Len(sends) : sends[i].pc # "awaitModel" /\ sends[i].chat = 0 /\ sends[i].slot = 0
          /\ Cardinality(KeyMessages) = Cardinality(ReturnedSends)
          /\ \A k \in 1..Len(chatMessages) : k \in KeyMessages \/ chatMessages[k].role = "user"
    /\ scenes = <<>>
C22_Witness == ~ai /\ pc = "done" /\ Len(sends) = 2 /\ sends[1].pc = "done" /\ sends[2].pc = "creating" /\ ~chatLoading

\* every invocation of handleChatSend returns, and its last step resets chatLoading and
\* leaves the chat handle alone
TurnsSettle == \A i \in 1..MaxSends : (Len(sends) >= i) ~> (Len(sends) >= i /\ sends[i].pc = "done")
TurnEndKeepsSession == \A i \in 1..MaxSends : ChatSettles(i) => (chatLoading' = FALSE /\ assistantChatRef' = assistantChatRef)
\* a handleChatSend that follows a turn that ended is sent on the chat of that turn
NextSendOnSameSession ==
    \A i \in 1..Len(sends) : (sends[i].pc = "done" /\ sends[i].chat # 0 /\ Len(sends') > Len(sends)) =>
        (sends'[Len(sends')].pc = "awaitModel" /\ sends'[Len(sends')].chat = sends[i].chat)

\* C27: the session stays usable after any turn: every turn started by handleChatSend,
\* however it ends, eventually resets chatLoading to false and keeps the chat handle,
\* and a handleChatSend that follows is accepted and sent on the same session.
C27_SessionStaysUsable == TurnsSettle /\ [][TurnEndKeepsSession /\ NextSendOnSameSession]_vars

\* C38: each assistant reply lands in the chat entry of its own turn: the text a turn's
\* onChunk delivers, or its error message, is written to the placeholder the turn pushed
\* directly after its own user message, and to no other entry.
C38_ReplyInOwnEntry ==
    [][\A i \in 1..MaxSends :
          /\ \A reply \in ChatReplies : ChatReply(i, reply) =>
                /\ chatMessages'[sends[i].slot] = Entry("assistant", reply)
                /\ \A k \in 1..Len(chatMessages) : k # sends[i].slot => chatMessages'[k] = chatMessages[k]
          /\ ChatFails(i) =>
                /\ chatMessages'[sends[i].slot] = Entry("assistant", "Failed to fetch")
                /\ \A k \in 1..Len(chatMessages) : k # sends[i].slot => chatMessages'[k] = chatMessages[k]
          /\ (i <= Len(sends') /\ sends'[i].slot # 0) => chatMessages'[sends'[i].slot - 1] = Entry("user", sends'[i].message)]_vars

\* C39: the chat handle is created at most once per session: every turn is sent on the
\* same chat, which is the one the host holds, whatever the interleaving of sends.
C39_SingleChatHandle ==
    \A i \in 1..Len(sends) : sends[i].chat # 0 => sends[i].chat = assistantChatRef

\* C40: chatLoading is true exactly when at least one turn is in flight.
C40_LoadingMirrorsInFlight ==
    chatLoading <=> (\E i \in 1..Len(sends) : sends[i].pc # "done")

\* C36: a turn that completes without error delivers exactly one chunk through onChunk,
\* and the text of that chunk is the text field of the value sendAssistantMessage
\* returns, on the tool-call path, the fallback-script path and the plain-text path.
C36_OneChunkEqualsReturn == TurnReturned => (Len(chunks) = 1 /\ chunks[1] = ret.text)

\* the effect callbacks sendAssistantMessage is given
EffectCallbacks == {"onScript", "onTranslateNarrations", "onYouTubeTitle", "onYouTubeDescription", "onYouTubeThumbnail"}

\* C37: the functionCalled flag of the returned value is true if and only if at least
\* one effect callback was invoked during the turn.
C37_FunctionCalledIffCallback == TurnReturned => (ret.functionCalled <=> \E j \in 1..Len(log) : log[j][2] \in EffectCallbacks)

\* C33: the translate confirmation sentence is returned for a turn only if a
\* translation overlay was applied to the scenes in that turn; a translateNarrations
\* call with a targetLanguage and no array, or an empty array, produces no confirmation.
C33_TranslateConfirmedOnlyIfApplied ==
    (TurnReturned /\ \E k \in Calls : functionCalls[k].name = "translateNarrations" /\ ret.text = TranslateSentence(functionCalls[k].targetLanguage)) =>
        \E k \in Calls : functionCalls[k].name = "translateNarrations" /\ Applied(k)

\* the tier the caller chose, under either of its two argument names
ChosenTier(fc) == IF fc.modelTier # UNDEF THEN fc.modelTier ELSE fc.imageModel
GivenPrompt(fc) == fc.prompt # UNDEF /\ Trim(fc.prompt) # ""

OverlayOf(list, args) == IF args.tnKind = "array" THEN OverlayFlat(list, args.translatedNarrations) ELSE OverlaySparse(list, args.scenes)
OverlayApplies(args) == IF args.tnKind = "array" THEN Len(args.translatedNarrations) > 0 ELSE args.scenesKind = "array" /\ Len(args.scenes) > 0
\* the list with every previous translation replaced by another text
Forget(list) == [i \in 1..Len(list) |-> [list[i] EXCEPT !.narrationTranslated = "forgotten"]]
RepeatsPrevious == fcIdx > 1 /\ functionCalls[fcIdx - 1] = cur

\* C31: the generateMovieScript and translateNarrations effects are idempotent: the same
\* call applied a second time in a row leaves the scene list as the first application
\* left it; and the scene list an applied translateNarrations effect leaves does not
\* depend on the narrationTranslated any scene held before.
C31_IdempotentEffects ==
    [][/\ (AtCall /\ Branch(cur) \in {"script", "translate"} /\ RepeatsPrevious) => scenes' = scenes
       /\ (AtCall /\ Branch(cur) = "translate" /\ OverlayApplies(cur)) =>
             /\ scenes' = OverlayOf(Forget(scenes), cur)
             /\ OverlayOf(scenes', cur) = scenes']_vars
C31_Witness ==
    /\ pc = "done"
    /\ Len(functionCalls) = 3
    /\ functionCalls[1] = FlatTranslateCall("French", <<"[excited] Aujourd'hui est le jour">>)
    /\ functionCalls[2] = SparseTranslateCall("French", <<Item(2, UNDEF, "Le jour")>>)
    /\ functionCalls[3] = functionCalls[2]
    /\ Len(scenes) = 1
    /\ scenes[1].narrationTranslated = ""
    /\ \A k \in Calls : Invoked(k)

\* C34: in the sparse form an entry {sceneNumber: k, narration} sets narrationTranslated
\* on the scene whose sceneNumber is k, whatever the numbering of the scene list; an
\* entry whose sceneNumber matches no scene changes nothing.
C34_SparseBySceneNumber ==
    [][(AtSparseTranslate /\ Len(cur.scenes) > 0) =>
          /\ Len(scenes') = Len(scenes)
          /\ \A i \in 1..Len(scenes) :
                /\ scenes'[i].narration = scenes[i].narration
                /\ \A k \in 1..Len(cur.scenes) :
                      (cur.scenes[k].sceneNumber = scenes[i].sceneNumber /\ \A j \in (k + 1)..Len(cur.scenes) : cur.scenes[j].sceneNumber # scenes[i].sceneNumber) =>
                          scenes'[i].narrationTranslated = Nullish(cur.scenes[k].narration, "")
                /\ (\A k \in 1..Len(cur.scenes) : cur.scenes[k].sceneNumber # scenes[i].sceneNumber) => scenes'[i].narrationTranslated = ""]_vars

\* the step in which a pending Translate-all run settles
TranslateAllSettles == translating /\ ~translating'

\* C35: Translate-all zips the translations back onto the scenes they were computed
\* from: a translation is written only onto a scene whose narration is the one that was
\* sent at that position, also when the scene list was replaced while
\* translateNarrationsBatch was pending; and when translateNarrationsBatch fails no
\* narrationTranslated changes.
C35_TranslateAllZipsOntoItsScenes ==
    [][TranslateAllSettles =>
          /\ \A i \in 1..Len(scenes) :
                scenes'[i].narrationTranslated # scenes[i].narrationTranslated =>
                    (i <= Len(taNarrations) /\ taNarrations[i] = NarrationsOf(scenes)[i])
          /\ error' # error => scenes' = scenes]_vars

====
